---- MODULE Spec2Model ----
(***************************************************************************)
(* A model of the wzrdbrain combo generator, src/src/wzrdbrain/wzrdbrain.py:*)
(* the move library, the Trick state resolver and generate_combo.          *)
(***************************************************************************)
EXTENDS Integers, Sequences, FiniteSets, TLC

(***************************************************************************)
(* Bounds of the model.                                                    *)
(***************************************************************************)
\* the largest explicit num_of_tricks a caller passes
MaxTricks == 3
\* the largest explicit max_stage a caller passes
MaxStage == 2
\* the largest number of moves in a library
MaxMoves == 2
\* the calls are counted up to this number (any number of calls can be made)
MaxCallsCounted == 2
\* the values the generator gave are counted up to this number
MaxDrawsCounted == 2

(***************************************************************************)
(* Program constants.                                                      *)
(***************************************************************************)
\* random.randint(2, 5)
DefaultMin == 2
DefaultMax == 5
\* max_stage: int = 5
DefaultMaxStage == 5

\* an optional value: absent, or Some(v)
None == << >>
Some(v) == <<v>>

(***************************************************************************)
(* The closed value domain of the four state attributes, and the relative  *)
(* values an exit specification may use.                                   *)
(***************************************************************************)
Directions == {"front", "back"}
Edges == {"inside", "outside"}
Stances == {"open", "closed"}
Points == {"heel", "toe"}
Relative == {"same", "opposite"}

\* class State
State == [direction : Directions, edge : Edges, stance : Stances, point : Points]

\* class ExitState, the fields Trick reads (lead_foot and feet are never read)
ExitState == [direction : Directions \cup Relative, edge : Edges \cup Relative,
              stance : Stances \cup Relative, point : Points]

\* class Move, the fields the generator and Trick read (mechanics and metadata
\* are never read)
Mv(id, name, category, stage, en, ex) ==
    [id |-> id, name |-> name, category |-> category, stage |-> stage,
     entry |-> [direction |-> en[1], edge |-> en[2], stance |-> en[3], point |-> en[4]],
     exit |-> [direction |-> ex[1], edge |-> ex[2], stance |-> ex[3], point |-> ex[4]]]

(***************************************************************************)
(* The records libraries are drawn from (moves.json is data of the         *)
(* package): unique ids, entry states of the closed domain, exit           *)
(* specifications that are absolute, "same" or "opposite", absolute exit   *)
(* points, stages 1..3.  Over (direction, point) the records give the      *)
(* edges FH->FH, FH->BT, BT->BT, BT->FH, BH->FT and FH->BH; no record      *)
(* enters at FT.                                                           *)
(***************************************************************************)
MovePool ==
    << Mv("glide", "Glide", "base", 1,
          <<"front", "inside", "open", "heel">>, <<"same", "same", "same", "heel">>),
       Mv("spin180", "180", "spin", 2,
          <<"front", "outside", "closed", "heel">>, <<"opposite", "opposite", "opposite", "toe">>),
       Mv("fakie_roll", "Fakie Roll", "roll", 1,
          <<"back", "inside", "open", "toe">>, <<"same", "outside", "same", "toe">>),
       Mv("pivot", "Toe Pivot", "pivot", 2,
          <<"back", "outside", "open", "toe">>, <<"front", "same", "closed", "heel">>),
       Mv("slide", "Back Slide", "slide", 3,
          <<"back", "inside", "closed", "heel">>, <<"opposite", "same", "opposite", "toe">>),
       Mv("swivel", "Swivel", "swivel", 3,
          <<"front", "inside", "open", "heel">>, <<"back", "opposite", "same", "heel">>) >>

\* the sub-sequence of MovePool at the indices of S, in pool order
RECURSIVE PickFrom(_, _)
PickFrom(S, k) ==
    IF k > Len(MovePool) THEN << >>
    ELSE IF k \in S THEN <<MovePool[k]>> \o PickFrom(S, k + 1)
    ELSE PickFrom(S, k + 1)

\* MoveLibrary.moves of every library the model loads
Libraries ==
    { PickFrom(S, 1) : S \in { T \in SUBSET (1..Len(MovePool)) : Cardinality(T) <= MaxMoves } }

(***************************************************************************)
(* State.                                                                  *)
(***************************************************************************)
VARIABLES
    library,        \* _LIBRARY.moves
    pc,             \* where the generate_combo call is
    given,          \* the argument num_of_tricks as passed: None or Some(n)
    num_of_tricks,  \* num_of_tricks once it is a number
    max_stage,      \* the argument
    combo,          \* combo: list[Trick]
    current_trick,  \* current_trick
    iter,           \* iterations of the for loop done
    result,         \* what the call returned
    rnd,            \* the random draws of the call, in order
    trick,          \* the Trick a caller constructed directly
    calls,          \* how many generate_combo calls were made, counted up to MaxCallsCounted
    source,         \* the records of moves.json
    error,          \* the exception that module load or a Trick construction raised, "" if none
    rng,            \* how many values the module-level generator of random has given,
                    \* counted up to MaxDrawsCounted
    procs           \* the locals of the generate_combo call of each concurrent caller

vars == <<library, pc, given, num_of_tricks, max_stage, combo, current_trick, iter,
          result, rnd, trick, calls,
          source, error,
          rng, procs>>

\* the callers that run generate_combo concurrently
Procs == {1, 2}

\* the locals of a call that has not started
IdleCall ==
    [pc |-> "idle", given |-> None, num_of_tricks |-> 0, max_stage |-> DefaultMaxStage,
     combo |-> << >>, current_trick |-> None, iter |-> 0, result |-> << >>]

\* random.randint and random.choice take a value from the one generator of the
\* module random and advance it
Drawn(r) == IF r < MaxDrawsCounted THEN r + 1 ELSE r

\* MOVES = {move.id: move for move in _LIBRARY.moves}: a later record with the
\* same id replaces an earlier one
MOVES(lib) ==
    [id \in {lib[k].id : k \in DOMAIN lib} |->
        lib[CHOOSE k \in DOMAIN lib :
                /\ lib[k].id = id
                /\ \A j \in DOMAIN lib : lib[j].id = id => j <= k]]

(***************************************************************************)
(* Trick.                                                                  *)
(***************************************************************************)
\* the "opposite" bug: the table is not consulted
ResolveRelativeNoTable(value, base) ==
    IF value = "same" THEN base
    ELSE IF value = "opposite" THEN base
    ELSE value

\* the table maps one way only
OppositesOneWay(base) ==
    CASE base = "front" -> "back"
      [] base = "inside" -> "outside"
      [] base = "open" -> "closed"
      [] OTHER -> base

\* the table without the pair of directions
OppositesEdgesOnly(base) ==
    CASE base = "inside" -> "outside"
      [] base = "outside" -> "inside"
      [] base = "open" -> "closed"
      [] base = "closed" -> "open"
      [] OTHER -> base

\* opposites.get(base, base)
Opposites(base) ==
    CASE base = "front" -> "back"
      [] base = "back" -> "front"
      [] base = "inside" -> "outside"
      [] base = "outside" -> "inside"
      [] base = "open" -> "closed"
      [] base = "closed" -> "open"
      [] OTHER -> base

\* Trick._resolve_relative
ResolveRelative(value, base) ==
    IF value = "same" THEN base
    ELSE IF value = "opposite" THEN Opposites(base)
    ELSE value

\* Trick.__post_init__ for a move_id of MOVES
Trick(move_id, lib) ==
    LET move == MOVES(lib)[move_id] IN
    [move_id |-> move_id,
     direction |-> move.entry.direction,
     edge |-> move.entry.edge,
     stance |-> move.entry.stance,
     point |-> move.entry.point,
     exit_direction |-> ResolveRelative(move.exit.direction, move.entry.direction),
     exit_edge |-> ResolveRelative(move.exit.edge, move.entry.edge),
     exit_stance |-> ResolveRelative(move.exit.stance, move.entry.stance),
     exit_point |-> move.exit.point]

\* the exit is reported as the move's exit specification, unresolved
ToDictRawExit(t, lib) ==
    LET move == MOVES(lib)[t.move_id] IN
    [id |-> t.move_id, name |-> move.name, category |-> move.category,
     stage |-> move.stage,
     entry |-> [direction |-> t.direction, edge |-> t.edge,
                stance |-> t.stance, point |-> t.point],
     exit |-> move.exit]

\* Trick.to_dict
ToDict(t, lib) ==
    LET move == MOVES(lib)[t.move_id] IN
    [id |-> t.move_id, name |-> move.name, category |-> move.category,
     stage |-> move.stage,
     entry |-> [direction |-> t.direction, edge |-> t.edge,
                stance |-> t.stance, point |-> t.point],
     exit |-> [direction |-> t.exit_direction, edge |-> t.exit_edge,
               stance |-> t.exit_stance, point |-> t.exit_point]]

\* [t.to_dict() for t in combo]
ToDicts(c, lib) == [k \in 1..Len(c) |-> ToDict(c[k], lib)]

(***************************************************************************)
(* generate_combo.                                                         *)
(***************************************************************************)
\* the values a caller passes for num_of_tricks (absent included) and max_stage
NumArgs == {None} \cup {Some(n) : n \in (-1)..MaxTricks}
StageArgs == (0..MaxStage) \cup {DefaultMaxStage}

\* the length range widened by one
DefaultLengthsWide == DefaultMin..(DefaultMax + 1)

\* random.randint(2, 5)
DefaultLengths == DefaultMin..DefaultMax

\* a request for one trick is answered like a request for none
IsEmptyRequestOne(n) == n <= 1

\* the guard with < in place of <=
IsEmptyRequestStrict(n) == n < 0

\* if num_of_tricks <= 0
IsEmptyRequest(n) == n <= 0

\* the loop runs twice for every trick after the first
LoopCountTwice(n) == 2 * (n - 1)

\* the loop runs once too often
LoopCountOffByOne(n) == n

\* the loop runs once too seldom
LoopCountShort(n) == n - 2

\* range(num_of_tricks - 1)
LoopCount(n) == n - 1

\* the opening move is taken from the moves entered facing front
ValidStartMovesFrontOnly(lib, s) ==
    SelectSeq(lib, LAMBDA m : m.stage <= s /\ m.entry.direction = "front")

\* the stage ceiling is not applied to the opening move
ValidStartMovesUnfiltered(lib, s) == lib

\* valid_start_moves = [m for m in _LIBRARY.moves if m.stage <= max_stage]
ValidStartMoves(lib, s) == SelectSeq(lib, LAMBDA m : m.stage <= s)

\* the candidates are the moves of the ceiling's own stage
CandidatesOfStage(lib, s, cur) ==
    SelectSeq(lib, LAMBDA m : /\ m.stage = s
                              /\ m.entry.direction = cur.exit_direction
                              /\ m.entry.point = cur.exit_point)

\* a move of the ceiling's own stage is not a candidate
CandidatesStageStrict(lib, s, cur) ==
    SelectSeq(lib, LAMBDA m : /\ ~(m.stage >= s)
                              /\ m.entry.direction = cur.exit_direction
                              /\ m.entry.point = cur.exit_point)

\* the continuity check compares the edge as well
CandidatesEdgeToo(lib, s, cur) ==
    SelectSeq(lib, LAMBDA m : /\ ~(m.stage > s)
                              /\ m.entry.direction = cur.exit_direction
                              /\ m.entry.point = cur.exit_point
                              /\ m.entry.edge = cur.exit_edge)

\* the continuity check compares the direction alone
CandidatesDirectionOnly(lib, s, cur) ==
    SelectSeq(lib, LAMBDA m : /\ ~(m.stage > s)
                              /\ m.entry.direction = cur.exit_direction)

\* the candidates of one iteration of the for loop
Candidates(lib, s, cur) ==
    SelectSeq(lib, LAMBDA m : /\ ~(m.stage > s)
                              /\ m.entry.direction = cur.exit_direction
                              /\ m.entry.point = cur.exit_point)

\* the combos the for loop can end with, over all draws, from the combo c
\* after i iterations
RECURSIVE LoopOutcomes(_, _, _, _, _)
LoopOutcomes(lib, c, i, n, s) ==
    IF ~(i < LoopCount(n)) THEN {c}
    ELSE LET candidates == Candidates(lib, s, c[Len(c)]) IN
         IF candidates = << >> THEN {c}
         ELSE UNION { LoopOutcomes(lib, Append(c, Trick(candidates[k].id, lib)),
                                   i + 1, n, s) : k \in DOMAIN candidates }

\* what generate_combo(n, s) can return, over all draws (nothing when
\* random.choice raises on an empty valid_start_moves)
CanReturn(lib, n, s) ==
    IF IsEmptyRequest(n) THEN {<< >>}
    ELSE LET valid_start_moves == ValidStartMoves(lib, s) IN
         { ToDicts(c, lib) :
              c \in UNION { LoopOutcomes(lib, <<Trick(valid_start_moves[k].id, lib)>>,
                                         0, n, s) : k \in DOMAIN valid_start_moves } }

Init ==
    /\ library \in Libraries
    /\ pc = "idle"
    /\ given = None
    /\ num_of_tricks = 0
    /\ max_stage = DefaultMaxStage
    /\ combo = << >>
    /\ current_trick = None
    /\ iter = 0
    /\ result = << >>
    /\ rnd = << >>
    /\ trick = None
    /\ calls = 0
    /\ rng = 0
    /\ procs = [p \in Procs |-> IdleCall]
    /\ source = library
    /\ error = ""

\* a caller calls generate_combo(n, s); the locals of the new call are bound
\* by the statements that assign them
Call(n, s) ==
    /\ pc \in {"idle", "done", "raised"}
    /\ pc' = "length"
    /\ given' = n
    /\ num_of_tricks' = IF n = None THEN 0 ELSE n[1]
    /\ max_stage' = s
    /\ result' = << >>
    /\ rnd' = << >>
    /\ calls' = IF calls < MaxCallsCounted THEN calls + 1 ELSE calls
    /\ UNCHANGED <<library, combo, current_trick, iter, trick,
                   source, error,
                   rng, procs>>

\* if num_of_tricks is None: num_of_tricks = random.randint(2, 5)
DrawLength ==
    /\ pc = "length"
    /\ given = None
    /\ \E k \in DefaultLengths :
          /\ num_of_tricks' = k
          /\ rnd' = Append(rnd, k)
    /\ pc' = "check"
    /\ rng' = Drawn(rng)
    /\ UNCHANGED <<library, given, max_stage, combo, current_trick, iter, result, trick, calls,
                   source, error,
                   procs>>

\* num_of_tricks was given
KeepLength ==
    /\ pc = "length"
    /\ given # None
    /\ pc' = "check"
    /\ UNCHANGED <<library, given, num_of_tricks, max_stage, combo, current_trick, iter,
                   result, rnd, trick, calls,
                   source, error,
                   rng, procs>>

\* if num_of_tricks <= 0: return []
ReturnEmpty ==
    /\ pc = "check"
    /\ IsEmptyRequest(num_of_tricks)
    /\ result' = << >>
    /\ pc' = "done"
    /\ UNCHANGED <<library, given, num_of_tricks, max_stage, combo, current_trick, iter,
                   rnd, trick, calls,
                   source, error,
                   rng, procs>>

\* the list outlives the call (a list shared between calls)
BeginShared ==
    /\ pc = "check"
    /\ ~IsEmptyRequest(num_of_tricks)
    /\ pc' = "first"
    /\ UNCHANGED <<library, given, num_of_tricks, max_stage, combo, current_trick, iter,
                   result, rnd, trick, calls,
                   source, error,
                   rng, procs>>

\* combo: list[Trick] = []
Begin ==
    /\ pc = "check"
    /\ ~IsEmptyRequest(num_of_tricks)
    /\ combo' = << >>
    /\ pc' = "first"
    /\ UNCHANGED <<library, given, num_of_tricks, max_stage, current_trick, iter,
                   result, rnd, trick, calls,
                   source, error,
                   rng, procs>>

\* first_move = random.choice(valid_start_moves); Trick(first_move.id); append
SelectFirst ==
    /\ pc = "first"
    /\ LET valid_start_moves == ValidStartMoves(library, max_stage) IN
       \E k \in 1..Len(valid_start_moves) :
          LET first_move == valid_start_moves[k] IN
          /\ current_trick' = Trick(first_move.id, library)
          /\ combo' = Append(combo, current_trick')
          /\ rnd' = Append(rnd, k)
    /\ iter' = 0
    /\ pc' = "loop"
    /\ rng' = Drawn(rng)
    /\ UNCHANGED <<library, given, num_of_tricks, max_stage, result, trick, calls,
                   source, error,
                   procs>>

\* random.choice of an empty list raises IndexError
RaiseIndexError ==
    /\ pc = "first"
    /\ ValidStartMoves(library, max_stage) = << >>
    /\ pc' = "raised"
    /\ UNCHANGED <<library, given, num_of_tricks, max_stage, combo, current_trick, iter,
                   result, rnd, trick, calls,
                   source, error,
                   rng, procs>>

\* a move that the combo already holds is not a candidate
ExtendNoRepeat ==
    /\ pc = "loop"
    /\ iter < LoopCount(num_of_tricks)
    /\ LET candidates ==
               SelectSeq(Candidates(library, max_stage, current_trick),
                         LAMBDA m : \A k \in DOMAIN combo : combo[k].move_id # m.id)
       IN
       \E k \in 1..Len(candidates) :
          LET next_move == candidates[k] IN
          /\ current_trick' = Trick(next_move.id, library)
          /\ combo' = Append(combo, current_trick')
          /\ rnd' = Append(rnd, k)
    /\ iter' = iter + 1
    /\ rng' = Drawn(rng)
    /\ UNCHANGED <<library, pc, given, num_of_tricks, max_stage, result, trick, calls,
                   source, error,
                   procs>>

\* the chosen move is removed from the library, so that it is not chosen again
ExtendConsumes ==
    /\ pc = "loop"
    /\ iter < LoopCount(num_of_tricks)
    /\ LET candidates == Candidates(library, max_stage, current_trick) IN
       \E k \in 1..Len(candidates) :
          LET next_move == candidates[k] IN
          /\ current_trick' = Trick(next_move.id, library)
          /\ combo' = Append(combo, current_trick')
          /\ rnd' = Append(rnd, k)
          /\ library' = SelectSeq(library, LAMBDA m : m.id # next_move.id)
    /\ iter' = iter + 1
    /\ rng' = Drawn(rng)
    /\ UNCHANGED <<pc, given, num_of_tricks, max_stage, result, trick, calls,
                   source, error,
                   procs>>

\* one iteration that finds candidates: next_move = random.choice(candidates);
\* current_trick = Trick(next_move.id); combo.append(current_trick)
Extend ==
    /\ pc = "loop"
    /\ iter < LoopCount(num_of_tricks)
    /\ LET candidates == Candidates(library, max_stage, current_trick) IN
       \E k \in 1..Len(candidates) :
          LET next_move == candidates[k] IN
          /\ current_trick' = Trick(next_move.id, library)
          /\ combo' = Append(combo, current_trick')
          /\ rnd' = Append(rnd, k)
    /\ iter' = iter + 1
    /\ rng' = Drawn(rng)
    /\ UNCHANGED <<library, pc, given, num_of_tricks, max_stage, result, trick, calls,
                   source, error,
                   procs>>

\* the emptiness check is missing: random.choice(candidates) raises
BreakRaises ==
    /\ pc = "loop"
    /\ iter < LoopCount(num_of_tricks)
    /\ Candidates(library, max_stage, current_trick) = << >>
    /\ pc' = "raised"
    /\ UNCHANGED <<library, given, num_of_tricks, max_stage, combo, current_trick, iter,
                   result, rnd, trick, calls,
                   source, error,
                   rng, procs>>

\* if not candidates: break
Break ==
    /\ pc = "loop"
    /\ iter < LoopCount(num_of_tricks)
    /\ Candidates(library, max_stage, current_trick) = << >>
    /\ pc' = "ret"
    /\ UNCHANGED <<library, given, num_of_tricks, max_stage, combo, current_trick, iter,
                   result, rnd, trick, calls,
                   source, error,
                   rng, procs>>

\* the loop may be left before the range is exhausted
LoopEndEarly ==
    /\ pc = "loop"
    /\ pc' = "ret"
    /\ UNCHANGED <<library, given, num_of_tricks, max_stage, combo, current_trick, iter,
                   result, rnd, trick, calls,
                   source, error,
                   rng, procs>>

\* the range is exhausted
LoopEnd ==
    /\ pc = "loop"
    /\ ~(iter < LoopCount(num_of_tricks))
    /\ pc' = "ret"
    /\ UNCHANGED <<library, given, num_of_tricks, max_stage, combo, current_trick, iter,
                   result, rnd, trick, calls,
                   source, error,
                   rng, procs>>

\* return [t.to_dict() for t in combo]
Return ==
    /\ pc = "ret"
    /\ result' = ToDicts(combo, library)
    /\ pc' = "done"
    /\ UNCHANGED <<library, given, num_of_tricks, max_stage, combo, current_trick, iter,
                   rnd, trick, calls,
                   source, error,
                   rng, procs>>

Next ==
    \/ \E n \in NumArgs, s \in StageArgs : Call(n, s)
    \/ DrawLength
    \/ KeepLength
    \/ ReturnEmpty
    \/ Begin
    \/ SelectFirst
    \/ RaiseIndexError
    \/ Extend
    \/ Break
    \/ LoopEnd
    \/ Return

Spec == Init /\ [][Next]_vars

\* the steps of a call that is under way: the interpreter runs the body of
\* generate_combo on to its return or to its exception; a caller need not call
Body ==
    \/ DrawLength
    \/ KeepLength
    \/ ReturnEmpty
    \/ Begin
    \/ SelectFirst
    \/ RaiseIndexError
    \/ Extend
    \/ Break
    \/ LoopEnd
    \/ Return

SpecLive == Spec /\ WF_vars(Body)

(***************************************************************************)
(* A caller that constructs a Trick directly, for a library of one move    *)
(* drawn from the whole closed domain.                                     *)
(***************************************************************************)
AllMoves == { [id |-> "m", name |-> "M", category |-> "c", stage |-> 1,
               entry |-> en, exit |-> ex] : en \in State, ex \in ExitState }

InitTrick ==
    /\ library \in { <<m>> : m \in AllMoves }
    /\ pc = "idle"
    /\ given = None
    /\ num_of_tricks = 0
    /\ max_stage = DefaultMaxStage
    /\ combo = << >>
    /\ current_trick = None
    /\ iter = 0
    /\ result = << >>
    /\ rnd = << >>
    /\ trick = None
    /\ calls = 0
    /\ rng = 0
    /\ procs = [p \in Procs |-> IdleCall]
    /\ source = library
    /\ error = ""

\* the move ids a caller passes to Trick
TrickArgs == {"glide", "invalid_move"}

\* Trick(move_id) for a move_id of MOVES
NewTrick(move_id) ==
    /\ move_id \in DOMAIN MOVES(library)
    /\ trick' = Some(Trick(move_id, library))
    /\ error' = ""
    /\ UNCHANGED <<library, pc, given, num_of_tricks, max_stage, combo, current_trick,
                   iter, result, rnd, calls, source,
                   rng, procs>>

\* Trick(move_id) for a move_id that is not a key of MOVES: MOVES[self.move_id]
\* raises KeyError and the caller gets no Trick
TrickKeyError(move_id) ==
    /\ move_id \notin DOMAIN MOVES(library)
    /\ error' = "KeyError"
    /\ UNCHANGED <<library, pc, given, num_of_tricks, max_stage, combo, current_trick,
                   iter, result, rnd, trick, calls, source,
                   rng, procs>>

NextTrick ==
    \/ \E k \in DOMAIN library : NewTrick(library[k].id)
    \/ \E move_id \in TrickArgs : TrickKeyError(move_id)

SpecTrick == InitTrick /\ [][NextTrick]_vars

(***************************************************************************)
(* Callers that call generate_combo and construct Tricks, in any order, on *)
(* the loaded library.                                                     *)
(***************************************************************************)
NextUse == Next \/ NextTrick

SpecUse == Init /\ [][NextUse]_vars

(***************************************************************************)
(* Concurrent callers.  Each caller of Procs makes one generate_combo call *)
(* with locals of its own; the steps of the calls interleave in any order. *)
(* The library and the generator of the module random are the module's,    *)
(* one for all callers.  A draw is one step: the generator hands out a     *)
(* value and advances within one call of the interpreter.                  *)
(***************************************************************************)
\* the arguments the concurrent callers pass
ConcNumArgs == {None, Some(0), Some(MaxTricks)}
ConcStageArgs == {MaxStage, DefaultMaxStage}

\* what a concurrent call leaves alone besides the generator
ConcFrame ==
    UNCHANGED <<library, pc, given, num_of_tricks, max_stage, combo, current_trick,
                iter, result, rnd, trick, calls, source, error>>

\* caller p calls generate_combo(n, s)
ConcCall(p, n, s) ==
    /\ procs[p].pc = "idle"
    /\ procs' = [procs EXCEPT ![p] =
                    [@ EXCEPT !.pc = "length", !.given = n,
                              !.num_of_tricks = IF n = None THEN 0 ELSE n[1],
                              !.max_stage = s]]
    /\ UNCHANGED rng
    /\ ConcFrame

\* if num_of_tricks is None: num_of_tricks = random.randint(2, 5)
ConcDrawLength(p) ==
    /\ procs[p].pc = "length"
    /\ procs[p].given = None
    /\ \E k \in DefaultLengths :
          procs' = [procs EXCEPT ![p] = [@ EXCEPT !.pc = "check", !.num_of_tricks = k]]
    /\ rng' = Drawn(rng)
    /\ ConcFrame

\* num_of_tricks was given
ConcKeepLength(p) ==
    /\ procs[p].pc = "length"
    /\ procs[p].given # None
    /\ procs' = [procs EXCEPT ![p] = [@ EXCEPT !.pc = "check"]]
    /\ UNCHANGED rng
    /\ ConcFrame

\* if num_of_tricks <= 0: return []
ConcReturnEmpty(p) ==
    /\ procs[p].pc = "check"
    /\ IsEmptyRequest(procs[p].num_of_tricks)
    /\ procs' = [procs EXCEPT ![p] = [@ EXCEPT !.pc = "done", !.result = << >>]]
    /\ UNCHANGED rng
    /\ ConcFrame

\* combo: list[Trick] = []
ConcBegin(p) ==
    /\ procs[p].pc = "check"
    /\ ~IsEmptyRequest(procs[p].num_of_tricks)
    /\ procs' = [procs EXCEPT ![p] = [@ EXCEPT !.pc = "first", !.combo = << >>]]
    /\ UNCHANGED rng
    /\ ConcFrame

\* first_move = random.choice(valid_start_moves); Trick(first_move.id); append
ConcSelectFirst(p) ==
    /\ procs[p].pc = "first"
    /\ LET valid_start_moves == ValidStartMoves(library, procs[p].max_stage) IN
       \E k \in 1..Len(valid_start_moves) :
          LET first == Trick(valid_start_moves[k].id, library) IN
          procs' = [procs EXCEPT ![p] =
                       [@ EXCEPT !.pc = "loop", !.current_trick = first,
                                 !.combo = Append(@, first), !.iter = 0]]
    /\ rng' = Drawn(rng)
    /\ ConcFrame

\* random.choice of an empty list raises IndexError
ConcRaiseIndexError(p) ==
    /\ procs[p].pc = "first"
    /\ ValidStartMoves(library, procs[p].max_stage) = << >>
    /\ procs' = [procs EXCEPT ![p] = [@ EXCEPT !.pc = "raised"]]
    /\ UNCHANGED rng
    /\ ConcFrame

\* one iteration that finds candidates
ConcExtend(p) ==
    /\ procs[p].pc = "loop"
    /\ procs[p].iter < LoopCount(procs[p].num_of_tricks)
    /\ LET candidates == Candidates(library, procs[p].max_stage, procs[p].current_trick) IN
       \E k \in 1..Len(candidates) :
          LET next == Trick(candidates[k].id, library) IN
          procs' = [procs EXCEPT ![p] =
                       [@ EXCEPT !.current_trick = next, !.combo = Append(@, next),
                                 !.iter = @ + 1]]
    /\ rng' = Drawn(rng)
    /\ ConcFrame

\* if not candidates: break
ConcBreak(p) ==
    /\ procs[p].pc = "loop"
    /\ procs[p].iter < LoopCount(procs[p].num_of_tricks)
    /\ Candidates(library, procs[p].max_stage, procs[p].current_trick) = << >>
    /\ procs' = [procs EXCEPT ![p] = [@ EXCEPT !.pc = "ret"]]
    /\ UNCHANGED rng
    /\ ConcFrame

\* the range is exhausted
ConcLoopEnd(p) ==
    /\ procs[p].pc = "loop"
    /\ ~(procs[p].iter < LoopCount(procs[p].num_of_tricks))
    /\ procs' = [procs EXCEPT ![p] = [@ EXCEPT !.pc = "ret"]]
    /\ UNCHANGED rng
    /\ ConcFrame

\* return [t.to_dict() for t in combo]
ConcReturn(p) ==
    /\ procs[p].pc = "ret"
    /\ procs' = [procs EXCEPT ![p] =
                    [@ EXCEPT !.pc = "done", !.result = ToDicts(procs[p].combo, library)]]
    /\ UNCHANGED rng
    /\ ConcFrame

NextConc ==
    \E p \in Procs :
       \/ \E n \in ConcNumArgs, s \in ConcStageArgs : ConcCall(p, n, s)
       \/ ConcDrawLength(p)
       \/ ConcKeepLength(p)
       \/ ConcReturnEmpty(p)
       \/ ConcBegin(p)
       \/ ConcSelectFirst(p)
       \/ ConcRaiseIndexError(p)
       \/ ConcExtend(p)
       \/ ConcBreak(p)
       \/ ConcLoopEnd(p)
       \/ ConcReturn(p)

SpecConc == Init /\ [][NextConc]_vars

(***************************************************************************)
(* Module load: _load_move_library validates moves.json against the        *)
(* pydantic models.  A source may hold records the specification calls     *)
(* malformed: an exit point that is relative, an id that another record    *)
(* has, a stage below 1, a missing field.                                  *)
(***************************************************************************)
RawPool ==
    MovePool \o
    << Mv("press", "Toe Press", "press", 1,
          <<"front", "inside", "open", "toe">>, <<"same", "same", "same", "same">>),
       Mv("glide", "Fakie Glide", "base", 2,
          <<"back", "inside", "open", "toe">>, <<"front", "same", "same", "heel">>),
       Mv("stand", "Stand", "base", 0,
          <<"front", "inside", "open", "heel">>, <<"same", "same", "same", "heel">>),
       [id |-> "broken", name |-> "Broken", category |-> "base",
        entry |-> [direction |-> "front", edge |-> "inside", stance |-> "open",
                   point |-> "heel"],
        exit |-> [direction |-> "same", edge |-> "same", stance |-> "same",
                  point |-> "heel"]] >>

\* the sub-sequence of RawPool at the indices of S, in pool order
RECURSIVE PickRaw(_, _)
PickRaw(S, k) ==
    IF k > Len(RawPool) THEN << >>
    ELSE IF k \in S THEN <<RawPool[k]>> \o PickRaw(S, k + 1)
    ELSE PickRaw(S, k + 1)

\* the "moves" of every moves.json the model loads
Sources ==
    { PickRaw(S, 1) : S \in { T \in SUBSET (1..Len(RawPool)) : Cardinality(T) <= MaxMoves } }

\* Move.model_validate of one record: every field without a default is there;
\* direction, edge, stance and point are str, stage is int, nothing else is asked
MoveValid(r) ==
    /\ {"id", "name", "category", "stage", "entry", "exit"} \subseteq DOMAIN r
    /\ {"direction", "edge", "stance", "point"} \subseteq DOMAIN r.entry
    /\ {"direction", "edge", "stance", "point"} \subseteq DOMAIN r.exit

\* MoveLibrary.model_validate(data)
LibraryValid(src) == \A k \in DOMAIN src : MoveValid(src[k])

InitLoad ==
    /\ source \in Sources
    /\ library = << >>
    /\ pc = "import"
    /\ given = None
    /\ num_of_tricks = 0
    /\ max_stage = DefaultMaxStage
    /\ combo = << >>
    /\ current_trick = None
    /\ iter = 0
    /\ result = << >>
    /\ rnd = << >>
    /\ trick = None
    /\ calls = 0
    /\ rng = 0
    /\ procs = [p \in Procs |-> IdleCall]
    /\ error = ""

\* _LIBRARY = _load_move_library(); MOVES = {...}
LoadLibrary ==
    /\ pc = "import"
    /\ LibraryValid(source)
    /\ library' = source
    /\ pc' = "idle"
    /\ UNCHANGED <<given, num_of_tricks, max_stage, combo, current_trick, iter,
                   result, rnd, trick, calls, source, error,
                   rng, procs>>

\* model_validate raises ValidationError: the import fails and the module's
\* functions are never defined
LoadFails ==
    /\ pc = "import"
    /\ ~LibraryValid(source)
    /\ pc' = "failed"
    /\ error' = "ValidationError"
    /\ UNCHANGED <<library, given, num_of_tricks, max_stage, combo, current_trick,
                   iter, result, rnd, trick, calls, source,
                   rng, procs>>

NextLoad ==
    \/ LoadLibrary
    \/ LoadFails
    \/ Next

SpecLoad == InitLoad /\ [][NextLoad]_vars

(***************************************************************************)
(* Notions of the specification that the properties are stated in.         *)
(***************************************************************************)
\* the pairing table: front <-> back, inside <-> outside, open <-> closed
Flip(v) ==
    CASE v = "front" -> "back"
      [] v = "back" -> "front"
      [] v = "inside" -> "outside"
      [] v = "outside" -> "inside"
      [] v = "open" -> "closed"
      [] v = "closed" -> "open"

\* absolute -> as is; same -> the entry value; opposite -> its flip
Resolved(spec_value, entry_value) ==
    CASE spec_value = "same" -> entry_value
      [] spec_value = "opposite" -> Flip(entry_value)
      [] OTHER -> spec_value

\* the moves confined to the opening position.  The module defines no such
\* set; the tests and the evaluation script import one by this name.
only_first == {"glide"}

\* a move that turns the body: its exit direction is given as "opposite", or
\* as the direction it is not entered in
Rotating(m) ==
    \/ m.exit.direction = "opposite"
    \/ m.exit.direction \in Directions /\ m.exit.direction # m.entry.direction

\* the library records a ceiling admits
EligibleMoves(s) == { k \in DOMAIN library : library[k].stage <= s }

\* the eligible records that may follow an exit (direction, point)
Followers(d, p, s) ==
    { k \in EligibleMoves(s) : /\ library[k].entry.direction = d
                               /\ library[k].entry.point = p }

\* the records that may follow library[k]
FollowersOf(k, s) ==
    Followers(Resolved(library[k].exit.direction, library[k].entry.direction),
              library[k].exit.point, s)

\* no walk of n tricks that opens with library[k] meets a dead end
RECURSIVE NoDeadEnd(_, _, _)
NoDeadEnd(k, n, s) ==
    \/ n <= 1
    \/ /\ FollowersOf(k, s) # {}
       /\ \A j \in FollowersOf(k, s) : NoDeadEnd(j, n - 1, s)

\* the index of the record with an id
IndexOf(id) == CHOOSE k \in DOMAIN library : library[k].id = id

\* the call has returned
Returned == pc = "done"

(***************************************************************************)
(* C1.  Continuity: in every returned combo, each trick's exit direction   *)
(* and exit point equal the entry direction and entry point of the trick   *)
(* after it.                                                               *)
(***************************************************************************)
C1_Continuity ==
    Returned =>
        \A k \in 1..(Len(result) - 1) :
            /\ result[k].exit.direction = result[k + 1].entry.direction
            /\ result[k].exit.point = result[k + 1].entry.point

\* a returned combo of three tricks whose first trick turns the skater round
C1_Witness ==
    /\ Returned
    /\ Len(result) = 3
    /\ result[1].entry.direction = "front"
    /\ result[1].exit.direction = "back"
    /\ result[2].entry.direction = "back"

(***************************************************************************)
(* C2.  Length bound: a call with num_of_tricks = n >= 1 returns at most n *)
(* tricks.                                                                 *)
(***************************************************************************)
C2_LengthBound ==
    (Returned /\ given # None /\ num_of_tricks >= 1) => Len(result) <= num_of_tricks

\* a call for three tricks that returned two: the bound is not always met
C2_Witness ==
    /\ Returned
    /\ given = Some(3)
    /\ Len(result) = 2

(***************************************************************************)
(* C3.  Full length.  As claimed: the combo has exactly n tricks whenever  *)
(* some eligible opening move has no dead end within n steps.  As amended: *)
(* whenever the opening move the call chose has no dead end within n       *)
(* steps.                                                                  *)
(***************************************************************************)
C3_FullLengthSomeOpening ==
    (/\ Returned
     /\ num_of_tricks >= 1
     /\ \E k \in EligibleMoves(max_stage) : NoDeadEnd(k, num_of_tricks, max_stage))
    => Len(result) = num_of_tricks

C3_FullLengthChosenOpening ==
    (/\ Returned
     /\ num_of_tricks >= 1
     /\ Len(result) >= 1
     /\ NoDeadEnd(IndexOf(result[1].id), num_of_tricks, max_stage))
    => Len(result) = num_of_tricks

\* a full combo of three tricks from a library in which another opening move
\* leads to a dead end
C3_Witness ==
    /\ Returned
    /\ num_of_tricks = 3
    /\ Len(result) = 3
    /\ NoDeadEnd(IndexOf(result[1].id), 3, max_stage)
    /\ \E k \in EligibleMoves(max_stage) : ~NoDeadEnd(k, 3, max_stage)

(***************************************************************************)
(* C4.  Stage filtering: every trick of a returned combo, the first one    *)
(* included, has a stage no higher than max_stage.                         *)
(***************************************************************************)
C4_StageFiltering ==
    Returned => \A k \in 1..Len(result) : result[k].stage <= max_stage

\* a combo of two tricks under ceiling 1 from a library that holds a move of a
\* higher stage
C4_Witness ==
    /\ Returned
    /\ max_stage = 1
    /\ Len(result) >= 2
    /\ \E k \in DOMAIN library : library[k].stage > 1

(***************************************************************************)
(* C5.  Zero length: a call with num_of_tricks <= 0 returns the empty      *)
(* combo; it selects nothing and does not fail.                            *)
(***************************************************************************)
C5_ZeroLength ==
    (pc # "idle" /\ given # None /\ given[1] <= 0) =>
        /\ pc \in {"length", "check", "done"}
        /\ Returned => result = << >>

\* a call with a negative length has returned, for a ceiling that admits no move
C5_Witness ==
    /\ Returned
    /\ given = Some(-1)
    /\ result = << >>
    /\ EligibleMoves(max_stage) = {}

(***************************************************************************)
(* C6.  Default length: when num_of_tricks is absent the target length is  *)
(* one of 2..5, and the returned combo has 1 to 5 tricks.                  *)
(***************************************************************************)
C6_DefaultLength ==
    (given = None /\ pc \in {"check", "first", "loop", "ret", "done", "raised"}) =>
        /\ num_of_tricks \in DefaultMin..DefaultMax
        /\ Returned => (1 <= Len(result) /\ Len(result) <= DefaultMax)

\* a call without a length that returned five tricks
C6_Witness ==
    /\ Returned
    /\ given = None
    /\ Len(result) = 5

(***************************************************************************)
(* C7.  No failure path: generate_combo never ends in an error.            *)
(***************************************************************************)
C7_NeverRaises == pc # "raised"

(***************************************************************************)
(* C8.  Early termination: a loop iteration that finds no candidate ends   *)
(* the loop with the combo as it is, and the call then returns exactly the *)
(* tricks of that combo, in order.                                         *)
(***************************************************************************)
C8_EarlyTermination ==
    [][/\ (/\ pc = "loop"
           /\ iter < num_of_tricks - 1
           /\ Followers(current_trick.exit_direction, current_trick.exit_point,
                        max_stage) = {})
          => (pc' = "ret" /\ combo' = combo)
       /\ pc = "ret"
          => /\ pc' = "done"
             /\ Len(result') = Len(combo)
             /\ \A k \in 1..Len(combo) :
                   /\ result'[k].id = combo[k].move_id
                   /\ result'[k].entry =
                         [direction |-> combo[k].direction, edge |-> combo[k].edge,
                          stance |-> combo[k].stance, point |-> combo[k].point]
                   /\ result'[k].exit =
                         [direction |-> combo[k].exit_direction,
                          edge |-> combo[k].exit_edge,
                          stance |-> combo[k].exit_stance,
                          point |-> combo[k].exit_point]]_vars

\* a call for three tricks returned two, the second one at a dead end
C8_Witness ==
    /\ Returned
    /\ num_of_tricks = 3
    /\ Len(result) = 2
    /\ Followers(result[2].exit.direction, result[2].exit.point, max_stage) = {}

(***************************************************************************)
(* C9.  Determinism: the combo a call returns is a function of the         *)
(* library, the arguments and the random draws of that call alone, so two  *)
(* calls that agree on them return the same combo, whatever calls were     *)
(* made before.  Replay is that function: it applies the draws in order,   *)
(* the first to the length when the length is absent, the next to the      *)
(* eligible moves, each later one to the followers of the trick before.    *)
(***************************************************************************)
\* the record of a library move placed in a combo
Placed(m) ==
    [id |-> m.id, name |-> m.name, category |-> m.category, stage |-> m.stage,
     entry |-> m.entry,
     exit |-> [direction |-> Resolved(m.exit.direction, m.entry.direction),
               edge |-> Resolved(m.exit.edge, m.entry.edge),
               stance |-> Resolved(m.exit.stance, m.entry.stance),
               point |-> m.exit.point]]

\* the members of a set of library indices, in library order
RECURSIVE InOrder(_, _)
InOrder(S, k) ==
    IF k > Len(library) THEN << >>
    ELSE IF k \in S THEN <<k>> \o InOrder(S, k + 1)
    ELSE InOrder(S, k + 1)

\* the combo after the draws are applied to a combo that is under way
RECURSIVE ReplayFrom(_, _, _)
ReplayFrom(done, draws, s) ==
    IF draws = << >> THEN done
    ELSE LET last == done[Len(done)]
             next == InOrder(Followers(last.exit.direction, last.exit.point, s), 1)
         IN  ReplayFrom(Append(done, Placed(library[next[Head(draws)]])), Tail(draws), s)

Replay(g, s, draws) ==
    LET n == IF g = None THEN Head(draws) ELSE g[1]
        rest == IF g = None THEN Tail(draws) ELSE draws
    IN  IF n <= 0 THEN << >>
        ELSE ReplayFrom(<<Placed(library[InOrder(EligibleMoves(s), 1)[Head(rest)]])>>,
                        Tail(rest), s)

C9_Determinism == Returned => result = Replay(given, max_stage, rnd)

\* a call that is not the first returned three tricks after at least one
\* choice among several candidates
C9_Witness ==
    /\ Returned
    /\ calls >= 2
    /\ Len(result) = 3
    /\ \E k \in 1..Len(rnd) : rnd[k] = 2 /\ k > 1

(***************************************************************************)
(* C10.  Resolution: each of exit direction, edge and stance is the        *)
(* specification's value when absolute, the entry value when "same", the   *)
(* flip of the entry value when "opposite"; the exit point is the          *)
(* specification's point.                                                  *)
(***************************************************************************)
C10_Resolution ==
    trick # None =>
        LET t == trick[1]
            m == library[IndexOf(t.move_id)]
        IN  /\ t.exit_direction = Resolved(m.exit.direction, m.entry.direction)
            /\ t.exit_edge = Resolved(m.exit.edge, m.entry.edge)
            /\ t.exit_stance = Resolved(m.exit.stance, m.entry.stance)
            /\ t.exit_point = m.exit.point

\* a trick resolved from "opposite", "same" and an absolute value at once
C10_Witness ==
    /\ trick # None
    /\ library[1].exit.direction = "opposite"
    /\ library[1].exit.edge = "same"
    /\ library[1].exit.stance = "closed"
    /\ library[1].entry.stance = "open"
    /\ trick[1].exit_direction = "back"
    /\ trick[1].exit_stance = "closed"

(***************************************************************************)
(* Notions of the specification about the source of the library.           *)
(***************************************************************************)
\* the load is over and did not fail
Loaded == pc \notin {"import", "failed"}

\* a record of the source has a relative exit point
SourceHasRelativePoint ==
    \E k \in DOMAIN source : source[k].exit.point \in Relative

\* two records of the source share an id
SourceHasDuplicateId ==
    \E j, k \in DOMAIN source : j # k /\ source[j].id = source[k].id

\* a record of the source misses a required field
SourceMissesField ==
    \E k \in DOMAIN source :
        ~({"id", "name", "category", "stage", "entry", "exit"} \subseteq DOMAIN source[k])

\* a record of the source has a stage below 1, the easiest tier
SourceHasStageOutOfRange ==
    \E k \in DOMAIN source : "stage" \in DOMAIN source[k] /\ source[k].stage < 1

(***************************************************************************)
(* C11.  Catalog validation (point): a source with a record whose exit     *)
(* point is "same" or "opposite" is never loaded, so no library record and *)
(* no placed trick has a relative exit point.                              *)
(***************************************************************************)
C11_RelativePointRejected ==
    /\ SourceHasRelativePoint => ~Loaded
    /\ \A k \in DOMAIN library : library[k].exit.point \notin Relative
    /\ \A k \in DOMAIN combo : combo[k].exit_point \notin Relative

(***************************************************************************)
(* C12.  Catalog validation (duplicate ids): a source with two records     *)
(* that share an id is never loaded; the generator never has a library     *)
(* with a duplicated id.                                                   *)
(***************************************************************************)
C12_DuplicateIdRejected ==
    /\ SourceHasDuplicateId => ~Loaded
    /\ \A j, k \in DOMAIN library : library[j].id = library[k].id => j = k

(***************************************************************************)
(* C13.  Catalog validation (structure): a source with a record that       *)
(* misses a required field or whose stage is out of range is never loaded, *)
(* and after a failed load the generator never runs.                       *)
(***************************************************************************)
C13_StructureRejected ==
    /\ (SourceMissesField \/ SourceHasStageOutOfRange) => ~Loaded
    /\ pc = "failed" => (library = << >> /\ calls = 0)

(***************************************************************************)
(* C14.  The library is read-only after load: no step of a generate_combo  *)
(* call and no Trick construction, failed or not, changes the move library *)
(* or the id-to-move table.                                                *)
(***************************************************************************)
C14_ReadOnly ==
    [][library' = library /\ MOVES(library') = MOVES(library)]_vars

\* a call returned two tricks and a Trick was constructed, both on the
\* library as it was loaded
C14_Witness ==
    /\ Returned
    /\ Len(result) = 2
    /\ trick # None
    /\ library = source
    /\ Len(library) = 2

(***************************************************************************)
(* C19.  A Trick construction with a move that is not in the library fails *)
(* with a ValueError.                                                      *)
(***************************************************************************)
C19_InvalidMoveValueError ==
    error \notin {"", "ValidationError"} => error = "ValueError"

(***************************************************************************)
(* C16.  Only-first rule: no trick after the first of a returned combo is  *)
(* an only-first move, and no candidate list of the loop holds one.        *)
(***************************************************************************)
C16_OnlyFirst ==
    /\ Returned => \A k \in 2..Len(result) : result[k].id \notin only_first
    /\ pc = "loop" =>
          \A k \in DOMAIN Candidates(library, max_stage, current_trick) :
             Candidates(library, max_stage, current_trick)[k].id \notin only_first

C20_OpeningSelection ==
    /\ pc = "first" =>
          \A j \in EligibleMoves(max_stage) :
             ENABLED (SelectFirst /\ current_trick'.move_id = library[j].id)
    /\ (pc \in {"loop", "ret"} /\ Len(combo) >= 1) =>
          \E j \in EligibleMoves(max_stage) : combo[1].move_id = library[j].id
    /\ (Returned /\ Len(result) >= 1) =>
          \E j \in EligibleMoves(max_stage) : result[1].id = library[j].id

\* a returned combo that opens with a move entered facing back on the toe,
\* from a library that also holds an eligible move entered facing front
C20_Witness ==
    /\ Returned
    /\ Len(result) >= 1
    /\ result[1].entry.direction = "back"
    /\ result[1].entry.point = "toe"
    /\ \E j \in EligibleMoves(max_stage) : library[j].entry.direction = "front"

\* the combo a concurrent caller got is continuous, within its stage ceiling
\* and no longer than asked for
ConcurrentCombosSound ==
    \A p \in Procs :
       procs[p].pc = "done" =>
          LET r == procs[p].result IN
          /\ \A k \in 1..(Len(r) - 1) :
                /\ r[k + 1].entry.direction = r[k].exit.direction
                /\ r[k + 1].entry.point = r[k].exit.point
          /\ \A k \in DOMAIN r : r[k].stage <= procs[p].max_stage
          /\ Len(r) <= procs[p].num_of_tricks \/ Len(r) = 0

(***************************************************************************)
(* C15.  Concurrent generation: no step of a generate_combo call changes   *)
(* state that the calls share, the pseudo-random generator in particular,  *)
(* and every combo a concurrent call returns is continuous, within its     *)
(* stage ceiling and no longer than asked for.                             *)
(***************************************************************************)
C15_NoSharedState ==
    /\ [][rng' = rng /\ library' = library]_vars
    /\ []ConcurrentCombosSound

\* an iteration of the for loop is about to compute its candidates
AtSlot == pc = "loop" /\ iter < LoopCount(num_of_tricks)

\* the loop can place library[j] in the slot at hand
CanPlace(j) == ENABLED (Extend /\ current_trick'.move_id = library[j].id)

(***************************************************************************)
(* C21.  Subsequent selection: at every slot after the first the moves     *)
(* that can be placed are exactly the library moves with stage <=          *)
(* max_stage that are entered in the direction and on the point the        *)
(* previous trick exits in, and every trick placed after the first is such *)
(* a move.                                                                 *)
(***************************************************************************)
C21_SubsequentSelection ==
    /\ AtSlot =>
          \A j \in DOMAIN library :
             CanPlace(j) <=>
                j \in Followers(current_trick.exit_direction, current_trick.exit_point,
                                max_stage)
    /\ pc \in {"loop", "ret"} =>
          \A k \in 2..Len(combo) :
             \E j \in Followers(combo[k - 1].exit_direction, combo[k - 1].exit_point,
                                max_stage) :
                combo[k].move_id = library[j].id

\* a returned combo whose second trick was one of two candidates, the other
\* library move being of the ceiling's own stage
C21_Witness ==
    /\ Returned
    /\ Len(result) >= 2
    /\ Cardinality(Followers(result[1].exit.direction, result[1].exit.point,
                             max_stage)) = 2
    /\ \E j \in DOMAIN library : library[j].stage = max_stage /\ library[j].id = result[2].id

(***************************************************************************)
(* C22.  Edge and stance are no continuity constraints: a move entered in  *)
(* the direction and on the point the previous trick exits in can be       *)
(* placed although its entry edge or entry stance differs from the         *)
(* previous trick's exit edge or exit stance.                              *)
(***************************************************************************)
C22_EdgeStanceFree ==
    AtSlot =>
       \A j \in DOMAIN library :
          (/\ library[j].stage <= max_stage
           /\ library[j].entry.direction = current_trick.exit_direction
           /\ library[j].entry.point = current_trick.exit_point
           /\ \/ library[j].entry.edge # current_trick.exit_edge
              \/ library[j].entry.stance # current_trick.exit_stance)
          => CanPlace(j)

\* a returned combo with an adjacent pair that differs in the edge and an
\* adjacent pair that differs in the stance
C22_Witness ==
    /\ Returned
    /\ \E k \in 1..(Len(result) - 1) : result[k + 1].entry.edge # result[k].exit.edge
    /\ \E k \in 1..(Len(result) - 1) : result[k + 1].entry.stance # result[k].exit.stance

(***************************************************************************)
(* C23.  Dead-end exactness: a call for n >= 1 tricks that leaves the loop *)
(* with, or returns, fewer than n tricks has at least one, and no library  *)
(* move with stage <= max_stage is entered in the direction and on the     *)
(* point its last trick exits in.                                          *)
(***************************************************************************)
C23_DeadEndExact ==
    /\ (pc = "ret" /\ Len(combo) < num_of_tricks) =>
          /\ Len(combo) >= 1
          /\ Followers(combo[Len(combo)].exit_direction, combo[Len(combo)].exit_point,
                       max_stage) = {}
    /\ (Returned /\ num_of_tricks >= 1 /\ Len(result) < num_of_tricks) =>
          /\ Len(result) >= 1
          /\ Followers(result[Len(result)].exit.direction,
                       result[Len(result)].exit.point, max_stage) = {}

\* a call with a drawn length returned one trick, the library holding a second
\* eligible move that cannot follow it
C23_Witness ==
    /\ Returned
    /\ given = None
    /\ Len(result) = 1
    /\ Cardinality(EligibleMoves(max_stage)) = 2
    /\ Followers(result[1].exit.direction, result[1].exit.point, max_stage) = {}

\* a call that is under way ends: it returns or it raises
CallEnds == (pc = "length") ~> (pc \in {"done", "raised"})

(***************************************************************************)
(* C24.  Termination: every generate_combo call eventually returns, and    *)
(* it places at most num_of_tricks tricks, one selection step each.        *)
(***************************************************************************)
C24_Termination ==
    /\ (pc = "length") ~> Returned
    /\ [](pc \in {"loop", "ret"} =>
             /\ Len(combo) <= num_of_tricks
             /\ Len(combo) = iter + 1)

\* _resolve_relative flips the value v of the domain D to another value of D
\* and back, and keeps it for "same"
FlipsWithin(v, D) ==
    LET o == ResolveRelative("opposite", v) IN
    /\ v \in D
    /\ o \in D
    /\ o # v
    /\ ResolveRelative("opposite", o) = v
    /\ ResolveRelative("same", v) = v

(***************************************************************************)
(* C25.  Flip is an involution within the closed domain: for the entry     *)
(* direction, edge and stance of a trick, "opposite" resolves to another   *)
(* value of the same attribute, "opposite" of that is the entry value      *)
(* again, "same" resolves to the entry value, the trick's exit values are  *)
(* of the attribute's domain, and the construction does not fail.          *)
(***************************************************************************)
C25_FlipInvolution ==
    /\ \A k \in DOMAIN library : ENABLED NewTrick(library[k].id)
    /\ trick # None =>
          LET t == trick[1]
              m == library[IndexOf(t.move_id)]
          IN  /\ FlipsWithin(t.direction, Directions)
              /\ FlipsWithin(t.edge, Edges)
              /\ FlipsWithin(t.stance, Stances)
              /\ t.exit_direction \in Directions
              /\ t.exit_edge \in Edges
              /\ t.exit_stance \in Stances
              /\ m.exit.direction = "opposite" =>
                    ResolveRelative("opposite", t.exit_direction) = t.direction
              /\ m.exit.edge = "opposite" =>
                    ResolveRelative("opposite", t.exit_edge) = t.edge
              /\ m.exit.stance = "opposite" =>
                    ResolveRelative("opposite", t.exit_stance) = t.stance

\* a trick entered back, outside and closed whose exit is "opposite" in all
\* three attributes
C25_Witness ==
    /\ trick # None
    /\ trick[1].direction = "back" /\ trick[1].exit_direction = "front"
    /\ trick[1].edge = "outside" /\ trick[1].exit_edge = "inside"
    /\ trick[1].stance = "closed" /\ trick[1].exit_stance = "open"
    /\ library[1].exit.direction = "opposite"
    /\ library[1].exit.edge = "opposite"
    /\ library[1].exit.stance = "opposite"

\* the trick t has the entry state and the stage of the record m
OfRecord(t, m) ==
    /\ t.direction = m.entry.direction
    /\ t.edge = m.entry.edge
    /\ t.stance = m.entry.stance
    /\ t.point = m.entry.point
    /\ MOVES(library)[t.move_id].stage = m.stage

(***************************************************************************)
(* C26.  Filter and resolution use the same record: on every library that  *)
(* load accepts, a trick placed has the entry state and the stage of the   *)
(* record that the stage filter, or the stage and continuity filter, let   *)
(* through and the draw chose.                                             *)
(***************************************************************************)
C26_SameRecord ==
    [][/\ (pc = "first" /\ pc' = "loop") =>
             OfRecord(current_trick',
                      ValidStartMoves(library, max_stage)[rnd'[Len(rnd')]])
       /\ (pc = "loop" /\ iter' = iter + 1) =>
             OfRecord(current_trick',
                      Candidates(library, max_stage, current_trick)[rnd'[Len(rnd')]])]_vars

(***************************************************************************)
(* C27.  Non-empty result: a call with num_of_tricks >= 1 and a max_stage  *)
(* that admits at least one library move goes on to choose an opening      *)
(* trick, does not raise, and returns a combo of at least one trick.       *)
(***************************************************************************)
C27_NonEmptyResult ==
    /\ [](/\ (pc = "check" /\ num_of_tricks >= 1) => ~ENABLED ReturnEmpty
          /\ (pc = "first" /\ EligibleMoves(max_stage) # {}) =>
                (ENABLED SelectFirst /\ ~ENABLED RaiseIndexError)
          /\ (Returned /\ num_of_tricks >= 1) => Len(result) >= 1)
    /\ (pc = "check" /\ num_of_tricks >= 1 /\ EligibleMoves(max_stage) # {})
          ~> (Returned /\ Len(result) >= 1)

\* a call for one trick returned one trick, the only library move that the
\* ceiling admits, from a library of two
C27_Witness ==
    /\ Returned
    /\ given = Some(1)
    /\ Len(result) = 1
    /\ Len(library) = 2
    /\ Cardinality(EligibleMoves(max_stage)) = 1

\* library[j] is entered as it is exited: in its resolved exit direction and
\* on its exit point
FollowsItself(j) ==
    /\ Resolved(library[j].exit.direction, library[j].entry.direction)
          = library[j].entry.direction
    /\ library[j].exit.point = library[j].entry.point

(***************************************************************************)
(* C28.  Memoryless walk: what can be placed at a slot is decided by       *)
(* max_stage and by the exit direction and exit point of the trick just    *)
(* before, whatever the combo holds before that: a follower that the combo *)
(* already holds can be placed again, and a move that is entered as it is  *)
(* exited can follow itself.                                               *)
(***************************************************************************)
C28_Memoryless ==
    AtSlot =>
       LET last == combo[Len(combo)] IN
       /\ last = current_trick
       /\ \A j \in Followers(last.exit_direction, last.exit_point, max_stage) :
             /\ CanPlace(j)
             /\ (\E k \in DOMAIN combo : combo[k].move_id = library[j].id) => CanPlace(j)
       /\ \A j \in EligibleMoves(max_stage) :
             (library[j].id = last.move_id /\ FollowsItself(j)) => CanPlace(j)

\* a returned combo of three tricks that are one move, from a library of two
C28_Witness ==
    /\ Returned
    /\ Len(result) = 3
    /\ result[1].id = result[2].id
    /\ result[2].id = result[3].id
    /\ Len(library) = 2

(***************************************************************************)
(* C29.  Prefix closure: a combo that generate_combo(n, s) returned is one *)
(* that generate_combo(n, s) can return, and for every k from 1 to its     *)
(* length its first k tricks are a combo that generate_combo(k, s) can     *)
(* return.                                                                 *)
(***************************************************************************)
C29_PrefixClosure ==
    Returned =>
       /\ result \in CanReturn(library, num_of_tricks, max_stage)
       /\ \A k \in 1..Len(result) :
             SubSeq(result, 1, k) \in CanReturn(library, k, max_stage)

\* a call for three tricks returned three, of two moves in turn, so that its
\* prefixes of one and of two tricks are combos of their own
C29_Witness ==
    /\ Returned
    /\ given = Some(3)
    /\ Len(result) = 3
    /\ result[1].id # result[2].id
    /\ result[3].id = result[1].id

(***************************************************************************)
(* C30.  Monotonic in the stage ceiling: a combo of exactly num_of_tricks  *)
(* tricks that generate_combo(n, s) returned is a combo that               *)
(* generate_combo(n, s2) can return for every ceiling s2 >= s.             *)
(***************************************************************************)
C30_StageMonotonic ==
    (Returned /\ num_of_tricks >= 1 /\ Len(result) = num_of_tricks) =>
       \A s2 \in StageArgs :
          s2 >= max_stage => result \in CanReturn(library, num_of_tricks, s2)

\* a full combo of two tricks returned under ceiling 1 whose first trick has a
\* follower of stage 2, which a higher ceiling admits
C30_Witness ==
    /\ Returned
    /\ max_stage = 1
    /\ num_of_tricks = 2
    /\ Len(result) = 2
    /\ \E j \in Followers(result[1].exit.direction, result[1].exit.point, 2) :
          library[j].stage = 2

====
